---- MODULE Spec2Model ----
(***************************************************************************)
(* Model of src/GoogleChatBot.js: the GoogleChatBot webhook client (color  *)
(* token resolution, message sending through the `request` transport) and  *)
(* the GoogleChatBotManager registry of named clients.                     *)
(*                                                                         *)
(* Encoding of JavaScript values                                           *)
(*   - message texts are sequences of one-character strings, so that the   *)
(*     regular expression and String.replace work on characters;           *)
(*   - urls, proxy strings, thread keys are TLA+ strings;                  *)
(*   - an optional object (a proxy configuration, a client returned by     *)
(*     Map.get) is a set with at most one element: {} is the falsy value  *)
(*     (undefined / false), {v} is the object v;                           *)
(*   - a client object is an index into the heap `clients`.                *)
(***************************************************************************)
EXTENDS Integers, Sequences, FiniteSets, TLC

VARIABLES
    text,       \* argument given to _replaceColors
    resolved,   \* value returned by _replaceColors
    clients,    \* heap of GoogleChatBot objects: sequence of [url, proxy]
    baseProxy,  \* GoogleChatBotManager.baseProxy
    bots,       \* GoogleChatBotManager.bots: the Map, as its entry list
    regLog,     \* history: every registerBot call so far, in call order
    ret,        \* value returned (or callback invocations made) by the last operation
    calls,      \* one record per sendMsg call: its arguments and its promise
    requests,   \* every request handed to the transport, in order
    lastOp      \* the last _replaceColors or manager operation executed, with its name argument

vars == <<text, resolved, clients, baseProxy, bots, regLog, ret, calls, requests, lastOp>>

(***************************************************************************)
(* Bounds of the model                                                     *)
(***************************************************************************)
MaxPieces == 3      \* an input text is made of at most this many pieces
MaxRegs == 3        \* registerBot calls, constructor entries included
MaxInitBots == 2    \* entries of the `bots` array given to the manager constructor
MaxCalls == 2       \* send calls on the single client of SpecSend
MaxInFlight == 2    \* send calls in SpecConc

(***************************************************************************)
(* Generic helpers                                                         *)
(***************************************************************************)
Min(S) == CHOOSE x \in S : \A y \in S : x <= y

RECURSIVE Concat(_)
Concat(ss) == IF ss = <<>> THEN <<>> ELSE Head(ss) \o Concat(Tail(ss))

(***************************************************************************)
(* GoogleChatBot: CHAT_COLORS and _replaceColors                           *)
(***************************************************************************)
RED == <<"R", "E", "D">>
GREEN == <<"G", "R", "E", "E", "N">>
MAGENTA == <<"M", "A", "G", "E", "N", "T", "A">>
YELLOW == <<"Y", "E", "L", "L", "O", "W">>
BLUE == <<"B", "L", "U", "E">>
CYAN == <<"C", "Y", "A", "N">>
GREY == <<"G", "R", "E", "Y">>

\* Own properties of this.CHAT_COLORS
ColorNames == {RED, GREEN, MAGENTA, YELLOW, BLUE, CYAN, GREY}

\* this.CHAT_COLORS[prop], coerced to a string by String.replace
CHAT_COLORS(prop) ==
    CASE prop = RED -> <<"#", "d", "8", "1", "1", "1", "1">>
      [] prop = GREEN -> <<"#", "1", "b", "9", "a", "1", "9">>
      [] prop = MAGENTA -> <<"#", "e", "2", "3", "a", "a", "7">>
      [] prop = YELLOW -> <<"#", "f", "f", "e", "f", "1", "b">>
      [] prop = BLUE -> <<"#", "1", "9", "2", "3", "9", "e">>
      [] prop = CYAN -> <<"#", "1", "b", "a", "9", "f", "f">>
      [] prop = GREY -> <<"#", "a", "5", "a", "5", "a", "5">>
      [] OTHER -> <<"u", "n", "d", "e", "f", "i", "n", "e", "d">>

\* A property test that forgets the own-property check: every name passes
HasAnyProperty(prop) == TRUE

\* this.CHAT_COLORS.hasOwnProperty(prop)
hasOwnProperty(prop) == prop \in ColorNames

\* /\$\{([^\{\}]*)\}/ tried at position i: the index of the closing brace of the
\* match that starts at i, 0 when the expression does not match there
RegexMatchEnd(s, i) ==
    IF i + 2 <= Len(s) /\ s[i] = "$" /\ s[i + 1] = "{"
    THEN LET braces == {j \in (i + 2)..Len(s) : s[j] \in {"{", "}"}}
         IN IF braces = {} THEN 0
            ELSE IF s[Min(braces)] = "}" THEN Min(braces) ELSE 0
    ELSE 0

\* text.match(/.../g) from position i on: the matched substrings, left to right,
\* not overlapping (the empty sequence stands for null)
RECURSIVE StringMatch(_, _)
StringMatch(s, i) ==
    IF i > Len(s) THEN <<>>
    ELSE LET e == RegexMatchEnd(s, i)
         IN IF e = 0 THEN StringMatch(s, i + 1)
            ELSE <<SubSeq(s, i, e)>> \o StringMatch(s, e + 1)

\* match[i].replace(/.../g, '$1'): the NAME of the token ${NAME}
CaptureGroup(m) == SubSeq(m, 3, Len(m) - 1)

\* s.indexOf(pat), 1-based; 0 when pat does not occur
IndexOf(s, pat) ==
    LET hits == {i \in 1..(Len(s) - Len(pat) + 1) : SubSeq(s, i, i + Len(pat) - 1) = pat}
    IN IF hits = {} THEN 0 ELSE Min(hits)

\* s.replace(pat, rep) with a string pattern: the first occurrence only
StringReplace(s, pat, rep) ==
    LET i == IndexOf(s, pat)
    IN IF i = 0 THEN s
       ELSE SubSeq(s, 1, i - 1) \o rep \o SubSeq(s, i + Len(pat), Len(s))

\* The for loop of _replaceColors from index i on (1-based)
RECURSIVE ReplaceLoop(_, _, _)
ReplaceLoop(s, match, i) ==
    IF i > Len(match) THEN s
    ELSE LET prop == CaptureGroup(match[i])
         IN IF hasOwnProperty(prop)
            THEN ReplaceLoop(StringReplace(s, <<"$", "{">> \o prop \o <<"}">>,
                                           CHAT_COLORS(prop)), match, i + 1)
            ELSE ReplaceLoop(s, match, i + 1)

\* The matches with repeated token strings dropped
RECURSIVE Distinct(_)
Distinct(ms) ==
    IF ms = <<>> THEN <<>>
    ELSE LET init == SubSeq(ms, 1, Len(ms) - 1)
             last == ms[Len(ms)]
         IN IF \E k \in 1..Len(init) : init[k] = last
            THEN Distinct(init) ELSE Distinct(init) \o <<last>>

\* A resolution that handles each distinct token string once
ReplaceColorsOncePerToken(s) == ReplaceLoop(s, Distinct(StringMatch(s, 1)), 1)

\* GoogleChatBot._replaceColors(text)
ReplaceColors(s) == ReplaceLoop(s, StringMatch(s, 1), 1)

(***************************************************************************)
(* GoogleChatBot: constructor, setProxy                                    *)
(***************************************************************************)
\* new GoogleChatBot(url): proxy starts as false
GoogleChatBot(url) == [url |-> url, proxy |-> {}]

\* 'http://' + user + ':' + password + '@' + proxy + ':' + port
ProxyString(config) ==
    "http://" \o config.user \o ":" \o config.password \o "@" \o config.proxy
        \o ":" \o ToString(config.port)

\* bot.setProxy({proxy, port, user, password})
setProxy(bot, config) == [bot EXCEPT !.proxy = {ProxyString(config)}]

(***************************************************************************)
(* Map, as ECMAScript defines it: a list of entries in insertion order     *)
(***************************************************************************)
MapHas(entries, key) == \E i \in 1..Len(entries) : entries[i].key = key

\* A set that moves an overwritten key to the end of the order
MapSetReinsert(entries, key, value) ==
    SelectSeq(entries, LAMBDA e : e.key # key) \o <<[key |-> key, value |-> value]>>

\* Map.prototype.set: an existing key keeps its place and gets the new value,
\* a new key is appended
MapSet(entries, key, value) ==
    IF MapHas(entries, key)
    THEN [i \in 1..Len(entries) |->
            IF entries[i].key = key THEN [key |-> key, value |-> value] ELSE entries[i]]
    ELSE Append(entries, [key |-> key, value |-> value])

\* Map.prototype.get: {} stands for undefined
MapGet(entries, key) == {entries[i].value : i \in {j \in 1..Len(entries) : entries[j].key = key}}

\* Array.from(map.keys())
MapKeys(entries) == [i \in 1..Len(entries) |-> entries[i].key]

\* Map.prototype.forEach(fn): the calls fn(value, key) it makes, in order
MapForEach(entries) == [i \in 1..Len(entries) |-> <<entries[i].value, entries[i].key>>]

(***************************************************************************)
(* GoogleChatBotManager                                                    *)
(***************************************************************************)
\* A manager that lets its default proxy win over the entry's own
registerBotBaseFirst(heap, map, base, name, config) ==
    LET proxy == IF base # {} THEN base ELSE config.proxy
        newbot == IF proxy # {}
                  THEN setProxy(GoogleChatBot(config.url), CHOOSE p \in proxy : TRUE)
                  ELSE GoogleChatBot(config.url)
    IN [clients |-> Append(heap, newbot), bots |-> MapSet(map, name, Len(heap) + 1)]

\* A manager that updates the url of an already registered client in place
registerBotMerge(heap, map, base, name, config) ==
    IF MapHas(map, name)
    THEN LET id == CHOOSE c \in MapGet(map, name) : TRUE
         IN [clients |-> [heap EXCEPT ![id].url = config.url], bots |-> map]
    ELSE registerBotBaseFirst(heap, map, {}, name, config)

\* registerBot(name, config) on a manager whose heap, Map and baseProxy are given:
\* the heap with the new client, and the Map with name set to it
registerBot(heap, map, base, name, config) ==
    LET proxy == IF config.proxy # {} THEN config.proxy ELSE base
        newbot == IF proxy # {}
                  THEN setProxy(GoogleChatBot(config.url), CHOOSE p \in proxy : TRUE)
                  ELSE GoogleChatBot(config.url)
    IN [clients |-> Append(heap, newbot), bots |-> MapSet(map, name, Len(heap) + 1)]

\* (bots || []).forEach(b => this.registerBot(b.name, b)), from entry i on
RECURSIVE ConstructorLoop(_, _, _, _, _)
ConstructorLoop(heap, map, base, botList, i) ==
    IF i > Len(botList) THEN [clients |-> heap, bots |-> map]
    ELSE LET r == registerBot(heap, map, base, botList[i].name, botList[i])
         IN ConstructorLoop(r.clients, r.bots, base, botList, i + 1)

\* A lookup that falls back to the first registered client
getBotOrFirst(map, name) ==
    IF MapHas(map, name) \/ map = <<>> THEN MapGet(map, name) ELSE {map[1].value}

\* getBot(name)
getBot(map, name) == MapGet(map, name)

\* botsList()
botsList(map) == MapKeys(map)

\* forEachBot(fn): the invocations of fn
forEachBot(map) == MapForEach(map)

(***************************************************************************)
(* GoogleChatBot: sendText, sendTextCard, sendMsg                          *)
(***************************************************************************)
\* JavaScript truthiness of an optional string: undefined and "" are falsy
Truthy(opt) == opt # {} /\ opt # {""}

\* The options object sendMsg hands to request(); uuid is what
\* GoogleChatBot.uuidv4() returns if it is called
RequestOptions(bot, data, thread, uuid) ==
    [proxy |-> bot.proxy,
     url |-> bot.url,
     threadKey |-> IF Truthy(thread) THEN CHOOSE t \in thread : TRUE ELSE uuid,
     method |-> "POST",
     json |-> TRUE,
     body |-> data]

\* sendMsg(data, thread) on client c: a new pending promise and one request.
\* A call records its arguments and the client's fields as they were at the call.
sendMsg(cs, rs, heap, c, data, thread, uuid) ==
    [calls |-> Append(cs, [client |-> c, bot |-> heap[c], data |-> data, thread |-> thread,
                           state |-> "pending", value |-> <<"none">>]),
     requests |-> Append(rs, [call |-> Len(cs) + 1,
                              options |-> RequestOptions(heap[c], data, thread, uuid),
                              reported |-> {}])]

\* The payload sendText builds
TextPayload(t) == [text |-> t]

\* The payload sendTextCard builds
CardPayload(t) ==
    [cards |-> <<[sections |-> <<[widgets |-> <<[textParagraph |-> [text |-> t]]>>]>>]>>]

\* resolve / reject of promise id: a settled promise ignores further calls
Settle(cs, id, state, value) ==
    IF cs[id].state = "pending"
    THEN [cs EXCEPT ![id].state = state, ![id].value = value]
    ELSE cs

\* A callback that checks only for a transport error
callbackIgnoreStatus(cs, rs, k, error, response) ==
    [calls |-> IF error = {}
               THEN Settle(cs, rs[k].call, "fulfilled",
                           <<"body", (CHOOSE r \in response : TRUE).body>>)
               ELSE Settle(cs, rs[k].call, "rejected", <<"error", CHOOSE e \in error : TRUE>>),
     requests |-> rs]

\* A callback that sends the request again after a transport error
callbackRetry(cs, rs, k, error, response) ==
    [calls |-> IF error = {} /\ (CHOOSE r \in response : TRUE).statusCode = 200
               THEN Settle(cs, rs[k].call, "fulfilled",
                           <<"body", (CHOOSE r \in response : TRUE).body>>)
               ELSE Settle(cs, rs[k].call, "rejected",
                           IF error # {} THEN <<"error", CHOOSE e \in error : TRUE>>
                           ELSE <<"response", CHOOSE r \in response : TRUE>>),
     requests |-> IF error # {}
                  THEN Append(rs, [rs[k] EXCEPT !.reported = {}])
                  ELSE rs]

\* A callback whose resolve / reject are shared by all the sends in flight
RECURSIVE SettleAll(_, _, _, _)
SettleAll(cs, id, state, value) ==
    IF id > Len(cs) THEN cs
    ELSE SettleAll(Settle(cs, id, state, value), id + 1, state, value)

callbackShared(cs, rs, k, error, response) ==
    [calls |-> IF error = {} /\ (CHOOSE r \in response : TRUE).statusCode = 200
               THEN SettleAll(cs, 1, "fulfilled",
                              <<"body", (CHOOSE r \in response : TRUE).body>>)
               ELSE SettleAll(cs, 1, "rejected",
                              IF error # {} THEN <<"error", CHOOSE e \in error : TRUE>>
                              ELSE <<"response", CHOOSE r \in response : TRUE>>),
     requests |-> rs]

\* function (error, response, body) of request k, body being response.body:
\* the promises after it ran, and the requests (it issues none)
callback(cs, rs, k, error, response) ==
    [calls |-> IF error = {} /\ (CHOOSE r \in response : TRUE).statusCode = 200
               THEN Settle(cs, rs[k].call, "fulfilled",
                           <<"body", (CHOOSE r \in response : TRUE).body>>)
               ELSE Settle(cs, rs[k].call, "rejected",
                           IF error # {} THEN <<"error", CHOOSE e \in error : TRUE>>
                           ELSE <<"response", CHOOSE r \in response : TRUE>>),
     requests |-> rs]

(***************************************************************************)
(* Inputs                                                                  *)
(***************************************************************************)
Token(name) == <<"$", "{">> \o name \o <<"}">>

\* Pieces an input text is assembled from: the seven color tokens, tokens with
\* an unknown and with an empty name, plain characters and a bare color name
Pieces ==
    {Token(n) : n \in ColorNames}
        \cup {Token(<<"F", "O", "O">>), Token(<<>>), <<"a">>, <<"$">>, <<"{">>, <<"}">>, RED}

Inputs == {Concat(ps) : ps \in UNION {[1..n -> Pieces] : n \in 0..MaxPieces}}

Names == {"a", "b"}
LookupNames == Names \cup {"c"}
Urls == {"http://x", "http://y"}

ProxyB == [proxy |-> "p", port |-> 8080, user |-> "u", password |-> "pw"]
ProxyD == [proxy |-> "d", port |-> 3128, user |-> "du", password |-> "dpw"]
\* a configuration without password: JavaScript concatenates "undefined"
ProxyPartial == [proxy |-> "q", port |-> 80, user |-> "qu", password |-> "undefined"]

BotConfigs == [name : Names, url : Urls, proxy : {{}, {ProxyB}, {ProxyPartial}}]
BotLists == UNION {[1..n -> BotConfigs] : n \in 0..MaxInitBots}
BaseProxies == {{}, {ProxyD}}

Hi == <<"h", "i">>
Alert == Token(RED) \o <<"a">> \o Token(RED)
RawData == [text |-> <<"r", "a", "w">>]

\* thread arguments: omitted, the empty string, a key
Threads == {{}, {""}, {"t1"}}
\* values Math.random lets uuidv4 return
UUIDs == {"uuid-1", "uuid-2"}

Response(status, body) == [statusCode |-> status, body |-> body]
\* what the transport passes to the callback: (error, response)
Outcomes ==
    {<<{}, {Response(200, "ok")}>>, <<{}, {Response(201, "created")}>>,
     <<{}, {Response(404, "not found")}>>, <<{"ETIMEDOUT"}, {}>>,
     <<{"EPARSE"}, {Response(200, "ok")}>>}
ConcOutcomes == {<<{}, {Response(200, "ok")}>>, <<{}, {Response(404, "not found")}>>}

NoOp == [op |-> "new", arg |-> ""]

(***************************************************************************)
(* Actions                                                                 *)
(***************************************************************************)
\* a call of _replaceColors(text)
ResolveColors ==
    /\ lastOp.op = "new"
    /\ resolved' = ReplaceColors(text)
    /\ lastOp' = [op |-> "_replaceColors", arg |-> ""]
    /\ UNCHANGED <<text, clients, baseProxy, bots, regLog, ret, calls, requests>>

\* manager.registerBot(name, config)
RegisterBot(config) ==
    /\ Len(regLog) < MaxRegs
    /\ LET r == registerBot(clients, bots, baseProxy, config.name, config)
       IN /\ clients' = r.clients
          /\ bots' = r.bots
    /\ regLog' = Append(regLog, config)
    /\ ret' = {}
    /\ lastOp' = [op |-> "registerBot", arg |-> config.name]
    /\ UNCHANGED <<text, resolved, baseProxy, calls, requests>>

\* manager.getBot(name)
GetBot(name) ==
    /\ ret' = getBot(bots, name)
    /\ lastOp' = [op |-> "getBot", arg |-> name]
    /\ UNCHANGED <<text, resolved, clients, baseProxy, bots, regLog, calls, requests>>

\* manager.botsList()
BotsList ==
    /\ ret' = botsList(bots)
    /\ lastOp' = [op |-> "botsList", arg |-> ""]
    /\ UNCHANGED <<text, resolved, clients, baseProxy, bots, regLog, calls, requests>>

\* manager.forEachBot(fn), fn recording its arguments
ForEachBot ==
    /\ ret' = forEachBot(bots)
    /\ lastOp' = [op |-> "forEachBot", arg |-> ""]
    /\ UNCHANGED <<text, resolved, clients, baseProxy, bots, regLog, calls, requests>>

\* bot.setProxy(config) on client c
SetProxy(c, config) ==
    /\ clients' = [clients EXCEPT ![c] = setProxy(clients[c], config)]
    /\ UNCHANGED <<text, resolved, baseProxy, bots, regLog, ret, calls, requests, lastOp>>

\* bot.url = url on client c
SetUrl(c, url) ==
    /\ clients' = [clients EXCEPT ![c].url = url]
    /\ UNCHANGED <<text, resolved, baseProxy, bots, regLog, ret, calls, requests, lastOp>>

\* bot.sendMsg(data, thread) on client c
SendMsg(c, data, thread, uuid, max) ==
    /\ Len(calls) < max
    /\ LET r == sendMsg(calls, requests, clients, c, data, thread, uuid)
       IN /\ calls' = r.calls
          /\ requests' = r.requests
    /\ UNCHANGED <<text, resolved, clients, baseProxy, bots, regLog, ret, lastOp>>

\* bot.sendText(t, thread) on client c
SendText(c, t, thread, uuid, max) ==
    /\ Len(calls) < max
    /\ LET r == sendMsg(calls, requests, clients, c, TextPayload(t), thread, uuid)
       IN /\ calls' = r.calls
          /\ requests' = r.requests
    /\ UNCHANGED <<text, resolved, clients, baseProxy, bots, regLog, ret, lastOp>>

\* bot.sendTextCard(t, thread) on client c
SendTextCard(c, t, thread, uuid, max) ==
    /\ Len(calls) < max
    /\ LET r == sendMsg(calls, requests, clients, c, CardPayload(ReplaceColors(t)),
                        thread, uuid)
       IN /\ calls' = r.calls
          /\ requests' = r.requests
    /\ UNCHANGED <<text, resolved, clients, baseProxy, bots, regLog, ret, lastOp>>

\* the transport completes request k and invokes its callback, once
Respond(k, error, response) ==
    /\ requests[k].reported = {}
    /\ LET r == callback(calls, requests, k, error, response)
       IN /\ calls' = r.calls
          /\ requests' = [i \in 1..Len(r.requests) |->
                            IF i = k
                            THEN [r.requests[i] EXCEPT
                                    !.reported = {[error |-> error, response |-> response]}]
                            ELSE r.requests[i]]
    /\ UNCHANGED <<text, resolved, clients, baseProxy, bots, regLog, ret, lastOp>>

(***************************************************************************)
(* Specifications                                                          *)
(***************************************************************************)
\* _replaceColors applied to every input text
InitColors ==
    /\ text \in Inputs
    /\ resolved = <<>>
    /\ clients = <<GoogleChatBot("http://x")>>
    /\ baseProxy = {}
    /\ bots = <<>>
    /\ regLog = <<>>
    /\ ret = {}
    /\ calls = <<>>
    /\ requests = <<>>
    /\ lastOp = NoOp

NextColors == ResolveColors

SpecColors == InitColors /\ [][NextColors]_vars

\* new GoogleChatBotManager({bots, proxy}) followed by any calls of its methods
InitRegistry ==
    \E base \in BaseProxies, botList \in BotLists :
        LET r == ConstructorLoop(<<>>, <<>>, base, botList, 1)
        IN /\ clients = r.clients
           /\ bots = r.bots
           /\ baseProxy = base
           /\ regLog = botList
           /\ text = <<>>
           /\ resolved = <<>>
           /\ ret = {}
           /\ calls = <<>>
           /\ requests = <<>>
           /\ lastOp = NoOp

NextRegistry ==
    \/ \E config \in BotConfigs : RegisterBot(config)
    \/ \E name \in LookupNames : GetBot(name)
    \/ BotsList
    \/ ForEachBot

SpecRegistry == InitRegistry /\ [][NextRegistry]_vars

\* one client, every kind of send, thread argument and transport outcome
InitSend ==
    /\ clients = <<GoogleChatBot("http://x")>>
    /\ calls = <<>>
    /\ requests = <<>>
    /\ text = <<>>
    /\ resolved = <<>>
    /\ baseProxy = {}
    /\ bots = <<>>
    /\ regLog = <<>>
    /\ ret = {}
    /\ lastOp = NoOp

NextSend ==
    \/ \E thread \in Threads, uuid \in UUIDs : SendText(1, Hi, thread, uuid, MaxCalls)
    \/ \E thread \in Threads, uuid \in UUIDs : SendTextCard(1, Alert, thread, uuid, MaxCalls)
    \/ \E thread \in Threads, uuid \in UUIDs : SendMsg(1, RawData, thread, uuid, MaxCalls)
    \/ \E k \in 1..Len(requests), o \in Outcomes : Respond(k, o[1], o[2])

SpecSend == InitSend /\ [][NextSend]_vars

\* two clients, sends in flight together, setProxy and url changes in between,
\* responses in any order
InitConc ==
    /\ clients = <<GoogleChatBot("http://x"), GoogleChatBot("http://y")>>
    /\ calls = <<>>
    /\ requests = <<>>
    /\ text = <<>>
    /\ resolved = <<>>
    /\ baseProxy = {}
    /\ bots = <<>>
    /\ regLog = <<>>
    /\ ret = {}
    /\ lastOp = NoOp

NextConc ==
    \/ \E c \in 1..Len(clients) : SetProxy(c, ProxyB)
    \/ \E c \in 1..Len(clients), url \in Urls : SetUrl(c, url)
    \/ \E c \in 1..Len(clients) : SendText(c, Hi, {"t1"}, "uuid-1", MaxInFlight)
    \/ \E c \in 1..Len(clients) : SendMsg(c, RawData, {"t2"}, "uuid-1", MaxInFlight)
    \/ \E k \in 1..Len(requests), o \in ConcOutcomes : Respond(k, o[1], o[2])

SpecConc == InitConc /\ [][NextConc]_vars

(***************************************************************************)
(* Properties of _replaceColors (SpecColors)                               *)
(***************************************************************************)
Max(S) == CHOOSE x \in S : \A y \in S : x >= y

\* the recognized color name whose token ${NAME} starts at position i of s, if any
RecognizedAt(s, i) ==
    {n \in ColorNames : i + Len(n) + 2 <= Len(s) /\ SubSeq(s, i, i + Len(n) + 2) = Token(n)}

\* positions of s where a recognized color token starts
RecognizedPositions(s) == {i \in 1..Len(s) : RecognizedAt(s, i) # {}}

\* s from position i on, with the recognized tokens that start at the chosen
\* positions replaced by their hex color and every other character kept
RECURSIVE Rebuild(_, _, _)
Rebuild(s, i, chosen) ==
    IF i > Len(s) THEN <<>>
    ELSE IF RecognizedAt(s, i) = {} THEN <<s[i]>> \o Rebuild(s, i + 1, chosen)
    ELSE LET n == CHOOSE m \in RecognizedAt(s, i) : TRUE
         IN (IF i \in chosen THEN CHAT_COLORS(n) ELSE Token(n))
                \o Rebuild(s, i + Len(n) + 3, chosen)

\* positions of the first occurrence of each recognized token string
FirstPositions(s) ==
    {i \in RecognizedPositions(s) :
        \A j \in RecognizedPositions(s) : RecognizedAt(s, j) = RecognizedAt(s, i) => i <= j}

\* some recognized token string occurs more than once in s
HasRepeatedToken(s) == FirstPositions(s) # RecognizedPositions(s)

\* C7: the result of _replaceColors is the input text in which nothing but
\* recognized color tokens has been replaced: every token with an unrecognized
\* name and every other character stays verbatim and in place, also next to
\* recognized tokens; a text without recognized tokens is returned unchanged.
C7_UnrecognizedVerbatim ==
    lastOp.op = "_replaceColors" =>
        /\ \E chosen \in SUBSET RecognizedPositions(text) : resolved = Rebuild(text, 1, chosen)
        /\ RecognizedPositions(text) = {} => resolved = text

C7_Witness ==
    /\ lastOp.op = "_replaceColors"
    /\ text = Token(<<"F", "O", "O">>) \o Token(RED) \o Token(<<>>)
    /\ resolved = Token(<<"F", "O", "O">>) \o CHAT_COLORS(RED) \o Token(<<>>)

\* C8 as stated: when a recognized token string occurs several times, one pass
\* substitutes only its first occurrence and the later ones remain.
C8_OnlyFirstOccurrence ==
    (lastOp.op = "_replaceColors" /\ HasRepeatedToken(text)) =>
        resolved = Rebuild(text, 1, FirstPositions(text))

\* C8 amended: when a recognized token string occurs several times, one pass
\* substitutes every occurrence; no occurrence of a recognized token remains.
C8_EveryOccurrence ==
    (lastOp.op = "_replaceColors" /\ HasRepeatedToken(text)) =>
        /\ resolved = Rebuild(text, 1, RecognizedPositions(text))
        /\ RecognizedPositions(resolved) = {}

C8_Witness ==
    /\ lastOp.op = "_replaceColors"
    /\ text = Token(RED) \o <<"a">> \o Token(RED)
    /\ resolved = CHAT_COLORS(RED) \o <<"a">> \o CHAT_COLORS(RED)

(***************************************************************************)
(* Properties of GoogleChatBotManager (SpecRegistry)                       *)
(* regLog[i] is the i-th registerBot call; the client it constructs is the *)
(* i-th object of the heap.                                                *)
(***************************************************************************)
\* the registerBot calls made for name
CallsFor(name) == {i \in 1..Len(regLog) : regLog[i].name = name}

Registered(name) == CallsFor(name) # {}

\* the proxy the manager's contract gives a client registered with config:
\* the entry's when it has one, else the default's, else none
ExpectedProxy(config) ==
    IF config.proxy # {} THEN {ProxyString(CHOOSE p \in config.proxy : TRUE)}
    ELSE IF baseProxy # {} THEN {ProxyString(CHOOSE p \in baseProxy : TRUE)}
    ELSE {}

\* names in the order of their first registration
RECURSIVE FirstRegistrations(_)
FirstRegistrations(n) ==
    IF n = 0 THEN <<>>
    ELSE IF \E i \in 1..(n - 1) : regLog[i].name = regLog[n].name
         THEN FirstRegistrations(n - 1)
         ELSE Append(FirstRegistrations(n - 1), regLog[n].name)

\* C3: every registered name has exactly one entry in the Map and occurs exactly
\* once in botsList(), and getBot(name) is the client constructed by the latest
\* registerBot(name, config): a fresh client with that config's url and proxy choice,
\* nothing of an earlier client of the name.
C3_OneClientPerName ==
    \A name \in Names :
        Registered(name) =>
            /\ Cardinality({i \in 1..Len(bots) : bots[i].key = name}) = 1
            /\ Len(SelectSeq(botsList(bots), LAMBDA k : k = name)) = 1
            /\ getBot(bots, name) = {Max(CallsFor(name))}
            /\ LET latest == regLog[Max(CallsFor(name))]
               IN clients[Max(CallsFor(name))] =
                      [url |-> latest.url, proxy |-> ExpectedProxy(latest)]

\* "a" registered with a proxy and url x, then again without proxy and with url y
C3_Witness ==
    /\ baseProxy = {}
    /\ Len(regLog) = 3
    /\ regLog[1] = [name |-> "a", url |-> "http://x", proxy |-> {ProxyB}]
    /\ regLog[2].name = "b"
    /\ regLog[3] = [name |-> "a", url |-> "http://y", proxy |-> {}]
    /\ botsList(bots) = <<"a", "b">>
    /\ \A c \in getBot(bots, "a") : clients[c] = [url |-> "http://y", proxy |-> {}]

\* C4: the client each registerBot(name, config) constructs has the proxy string of
\* config.proxy when the entry has one, else that of the default proxy when one was
\* configured, else proxy false; and with bots a (no proxy), b (proxy p:8080, u, pw)
\* and no default, getBot("a") has no proxy and getBot("b") has http://u:pw@p:8080.
C4_ProxySelection ==
    /\ \A i \in 1..Len(regLog) :
           clients[i].proxy = ExpectedProxy(regLog[i])
    /\ (/\ baseProxy = {}
        /\ regLog = <<[name |-> "a", url |-> "http://x", proxy |-> {}],
                      [name |-> "b", url |-> "http://y", proxy |-> {ProxyB}]>>)
           => /\ \A c \in getBot(bots, "a") : clients[c].proxy = {}
              /\ \A c \in getBot(bots, "b") : clients[c].proxy = {"http://u:pw@p:8080"}
              /\ getBot(bots, "a") # {} /\ getBot(bots, "b") # {}

\* a default proxy is configured and the entry has its own: the entry's is used
C4_Witness ==
    /\ lastOp.op = "registerBot"
    /\ baseProxy = {ProxyD}
    /\ Len(regLog) = 2
    /\ regLog[1].proxy = {}
    /\ regLog[2].proxy = {ProxyB}
    /\ regLog[1].name # regLog[2].name
    /\ clients[1].proxy = {"http://du:dpw@d:3128"}
    /\ clients[2].proxy = {"http://u:pw@p:8080"}

\* C5: botsList() returns the registered names in the order of their first
\* registration (an overwrite keeps the name's place), and forEachBot(fn) calls
\* fn(client, name) exactly once per name, in that order, with the name's client.
C5_InsertionOrder ==
    /\ lastOp.op = "botsList" => ret = FirstRegistrations(Len(regLog))
    /\ lastOp.op = "forEachBot" =>
           ret = [i \in 1..Len(FirstRegistrations(Len(regLog))) |->
                    <<Max(CallsFor(FirstRegistrations(Len(regLog))[i])),
                      FirstRegistrations(Len(regLog))[i]>>]

\* forEachBot after a, b, then a again: fn(client 3, "a"), then fn(client 2, "b")
C5_Witness ==
    /\ lastOp.op = "forEachBot"
    /\ Len(regLog) = 3
    /\ regLog[1].name = "a" /\ regLog[2].name = "b" /\ regLog[3].name = "a"
    /\ ret = <<<<3, "a">>, <<2, "b">>>>

\* C6: getBot(name) returns the client of the latest registerBot(name, ...), or
\* undefined when the name was never registered, and changes neither the Map, the
\* default proxy nor any client.
C6_GetBot ==
    [][lastOp'.op = "getBot" =>
         /\ ret' = IF Registered(lastOp'.arg) THEN {Max(CallsFor(lastOp'.arg))} ELSE {}
         /\ bots' = bots
         /\ baseProxy' = baseProxy
         /\ clients' = clients]_vars

\* a lookup of the unknown name "c" in a manager that holds bots
C6_Witness ==
    /\ lastOp = [op |-> "getBot", arg |-> "c"]
    /\ ret = {}
    /\ Len(bots) = 2

(***************************************************************************)
(* Properties of the send operations (SpecSend, SpecConc)                  *)
(***************************************************************************)
\* the requests issued for call id
RequestsOf(id) == {k \in 1..Len(requests) : requests[k].call = id}

Settled(id) == calls[id].state # "pending"

\* what the claimed contract makes of a transport outcome o = [error, response]
Success(o) == o.error = {} /\ \A r \in o.response : r.statusCode = 200

ExpectedState(o) == IF Success(o) THEN "fulfilled" ELSE "rejected"

ExpectedValue(o) ==
    IF Success(o) THEN <<"body", (CHOOSE r \in o.response : TRUE).body>>
    ELSE IF o.error # {} THEN <<"error", CHOOSE e \in o.error : TRUE>>
    ELSE <<"response", CHOOSE r \in o.response : TRUE>>

\* C1: once the transport has reported (error, response) for a send, its promise is
\* fulfilled with response.body if and only if there was no error and the status
\* code is 200; otherwise it is rejected, with the error when there was one and
\* with the response object otherwise. Before the report the promise is pending.
C1_SettleByOutcome ==
    \A k \in 1..Len(requests) :
        LET call == calls[requests[k].call]
        IN /\ requests[k].reported = {} => call.state = "pending"
           /\ \A o \in requests[k].reported :
                  /\ call.state = "fulfilled" <=> Success(o)
                  /\ call.state = ExpectedState(o)
                  /\ call.value = ExpectedValue(o)

\* a sendTextCard answered with status 201 is rejected with the response object
C1_Witness ==
    \E k \in 1..Len(requests) :
        /\ "cards" \in DOMAIN requests[k].options.body
        /\ requests[k].reported = {[error |-> {}, response |-> {Response(201, "created")}]}
        /\ calls[requests[k].call].state = "rejected"
        /\ calls[requests[k].call].value = <<"response", Response(201, "created")>>

\* C2: every send call has exactly one request, a POST, whatever its outcome; no
\* step adds a request for an earlier call, a settled promise never changes again,
\* and a promise is settled only once its own request has been answered.
C2_OneRequestOneSettle ==
    /\ [](\A id \in 1..Len(calls) :
            /\ Cardinality(RequestsOf(id)) = 1
            /\ \A k \in RequestsOf(id) : requests[k].options.method = "POST"
            /\ Settled(id) => \A k \in RequestsOf(id) : requests[k].reported # {})
    /\ [][\A id \in 1..Len(calls) :
            /\ Settled(id) => calls'[id] = calls[id]
            /\ {k \in 1..Len(requests') : requests'[k].call = id} = RequestsOf(id)]_vars

\* both sends failed, one by a transport error and one by a 404, and there are
\* still exactly two requests
C2_Witness ==
    /\ Len(calls) = 2
    /\ Len(requests) = 2
    /\ calls[1].value = <<"error", "ETIMEDOUT">>
    /\ calls[2].value = <<"response", Response(404, "not found")>>

\* C9 as stated: the threadKey of a send's request is the thread the caller
\* supplied, for every supplied string; a generated identifier is used only when
\* the thread argument is omitted.
C9_ThreadKeyIsSuppliedThread ==
    \A k \in 1..Len(requests) :
        LET thread == calls[requests[k].call].thread
        IN /\ \A t \in thread : requests[k].options.threadKey = t
           /\ requests[k].options.threadKey \in UUIDs => thread = {}

\* C10: the request of every send carries the payload, thread key, url and proxy
\* of the moment of the call; every promise is settled exactly when, and as, its
\* own request is answered; and no later step (another send, setProxy, a url change,
\* another response) changes a request already issued or a promise already settled.
C10_InFlightIsolation ==
    /\ [](\A k \in 1..Len(requests) :
            LET call == calls[requests[k].call]
            IN /\ requests[k].options =
                      [proxy |-> call.bot.proxy, url |-> call.bot.url,
                       threadKey |-> CHOOSE t \in call.thread : TRUE,
                       method |-> "POST", json |-> TRUE, body |-> call.data]
               /\ requests[k].call = k
               /\ requests[k].reported = {} <=> call.state = "pending"
               /\ \A o \in requests[k].reported :
                      call.state = ExpectedState(o) /\ call.value = ExpectedValue(o))
    /\ [][\A k \in 1..Len(requests) :
            /\ requests'[k].options = requests[k].options
            /\ requests'[k].call = requests[k].call
            /\ calls'[k].bot = calls[k].bot
            /\ Settled(k) => calls'[k] = calls[k]]_vars

\* two sends on the same client with a setProxy and a url change in between; the
\* second is answered first and the first is still in flight with the old fields
C10_Witness ==
    /\ Len(calls) = 2
    /\ calls[1].client = 1 /\ calls[2].client = 1
    /\ requests[1].options.proxy = {} /\ requests[1].options.url = "http://x"
    /\ requests[2].options.proxy = {"http://u:pw@p:8080"}
    /\ requests[2].options.url = "http://y"
    /\ calls[1].state = "pending"
    /\ calls[2].state = "rejected"

====
